---------------------------- MODULE Spec2Model ----------------------------
(***************************************************************************)
(* Model of src/scripts/shot.js.  The file holds two programs:             *)
(*                                                                         *)
(*   program A (lines 1-120):   run -> snapOne -> largestVisibleLeaflet    *)
(*   program B (lines 122-244): the async main loop over SHOTS, with       *)
(*                              gotoRetry, waitForMapRender, getMapClip    *)
(*                              and isValidPng                             *)
(*                                                                         *)
(* SpecA is a run of program A, SpecB a run of program B, SpecAny a run of *)
(* either; SpecProbe applies the function the probe evaluates in the page  *)
(* to every list of elements.  The browser, the page and the file system   *)
(* are the environment: every call into them either succeeds with a value  *)
(* drawn from a bounded set or throws.                                     *)
(*                                                                         *)
(* Geometry is kept in half pixels (an integer n stands for n/2 px), so    *)
(* that Math.round has something to round.                                 *)
(***************************************************************************)
EXTENDS Integers, Sequences, FiniteSets, TLC

VARIABLES
    pc,            \* position of the program
    t,             \* index of the target being processed (1..NTargets)
    files,         \* files[k]: content of target k's output file, or NoFile
    exitCode,      \* -1 while the process runs, then 0 or 1
    failKind,      \* kind of the error that reached the top-level catch
    browserOpen,   \* a browser session is open
    closes,        \* browser.close() calls made for the current target
    buf,           \* buffer returned by the last screenshot
    now,           \* Date.now(), in ms since the current page was opened
    start,         \* largestVisibleLeaflet: start
    stableSince,   \* largestVisibleLeaflet: stableSince
    lastKey,       \* largestVisibleLeaflet: lastKey
    idx,           \* largestVisibleLeaflet: idx of the current tick
    result,        \* value largestVisibleLeaflet returned
    i,             \* gotoRetry: loop counter
    navAttempts,   \* navAttempts[k]: page.goto calls made for target k
    clip,          \* getMapClip: the clip rectangle
    pageEls,       \* the probe run on its own: els of line 47
    \* history variables (written, never read, by the program)
    selVis,        \* the element the probe selected passes the visibility test
    runKey,        \* key of the current stretch of equal keys, NoRun if broken
    runSince,      \* time of the first tick of that stretch
    lastFoundIdx,  \* idx of the most recent tick that found a candidate
    fbCount,       \* containers on the page when the fallback looked
    rasterVis,     \* what the current target rasterized passed the visibility test
    settled,       \* the page has stopped changing (the environment's state)
    ticks,         \* probe ticks started by the current detector invocation
    changedAt,     \* time of the last tick whose key differed from lastKey, or -1
    allChanged     \* every tick so far read a key that differed from lastKey

vars == << pc, t, files, exitCode, failKind, browserOpen, closes, buf, now,
           start, stableSince, lastKey, idx, result, i, navAttempts, clip,
           pageEls, selVis, runKey, runSince, lastFoundIdx, fbCount, rasterVis,
           settled, ticks, changedAt, allChanged >>

---------------------------------------------------------------------------
(* Program constants *)

NTargets == 3
STABILIZE_MS == 1200
CEILING_MS == 12000
POLL_MS == 150
MIN_VISIBLE_W == 200
MIN_VISIBLE_H == 150
MIN_BYTES == 20000
MIN_SIG_BYTES == 100
ATTEMPTS == 3

(* Bounds of the model *)

MaxEls == 2
MaxProbeEls == 3

---------------------------------------------------------------------------
(* The page: a sequence of elements in document order *)

H(px) == 2 * px

El(hidden, x, y, w, h) == [hidden |-> hidden, x |-> x, y |-> y, w |-> w, h |-> h]

Big     == El(FALSE, 0, 0, H(400), H(300))
Jitter  == El(FALSE, -1, 0, H(400), H(300))     \* Big moved left by 0.5 px
Small   == El(FALSE, 0, 0, H(300), H(200))
Hidden  == El(TRUE,  0, 0, H(400), H(300))      \* visibility:hidden, Big's box
Thin    == El(FALSE, 0, 0, H(200), H(300))      \* width exactly 200 px
Flat    == El(FALSE, 0, 0, H(400), H(150))      \* height exactly 150 px
OffLeft == El(FALSE, H(-400), 0, H(400), H(300)) \* right edge at 0
OffTop  == El(FALSE, 0, H(-300), H(400), H(300)) \* bottom edge at 0
Collapsed == El(TRUE, 0, 0, 0, 0)               \* display:none: an empty box

(* the elements the pages of a run are built from *)
PageElems == {Big, Jitter, Small, Hidden, Thin, Flat, OffLeft, OffTop, Collapsed}

RECURSIVE SeqsUpTo(_, _)
SeqsUpTo(S, n) ==
    IF n = 0 THEN {<< >>}
    ELSE LET shorter == SeqsUpTo(S, n - 1)
         IN  shorter \cup {Append(s, e) : s \in {q \in shorter : Len(q) = n - 1}, e \in S}

Pages == SeqsUpTo(PageElems, MaxEls)

(* isVisible without the computed-style test *)
IsVisibleSizeOnly(el) ==
    /\ el.w > H(MIN_VISIBLE_W)
    /\ el.h > H(MIN_VISIBLE_H)
    /\ el.y + el.h > 0
    /\ el.x + el.w > 0

(* isVisible, lines 41-46.  hidden stands for display none, visibility     *)
(* hidden or opacity 0.                                                    *)
IsVisible(el) ==
    IF el.hidden THEN FALSE
    ELSE /\ el.w > H(MIN_VISIBLE_W)
         /\ el.h > H(MIN_VISIBLE_H)
         /\ el.y + el.h > 0
         /\ el.x + el.w > 0

Area(el) == el.w * el.h

(* els.forEach of lines 48-54: best starts as {i: -1, area: 0} and is      *)
(* replaced by a visible element of strictly larger area.                  *)
RECURSIVE BestFrom(_, _, _)
BestFrom(els, k, best) ==
    IF k > Len(els) THEN best
    ELSE IF IsVisible(els[k]) /\ Area(els[k]) > best.area
         THEN BestFrom(els, k + 1, [i |-> k - 1, area |-> Area(els[k])])
         ELSE BestFrom(els, k + 1, best)

(* the probe with a best that an element of equal area replaces *)
RECURSIVE BestFromLast(_, _, _)
BestFromLast(els, k, best) ==
    IF k > Len(els) THEN best
    ELSE IF IsVisible(els[k]) /\ Area(els[k]) >= best.area
         THEN BestFromLast(els, k + 1, [i |-> k - 1, area |-> Area(els[k])])
         ELSE BestFromLast(els, k + 1, best)

BestIdxLast(els) == BestFromLast(els, 1, [i |-> -1, area |-> 0]).i

BestIdx(els) == BestFrom(els, 1, [i |-> -1, area |-> 0]).i

(* Math.round: the nearest integer, halves rounded up *)
Round(v) == (v + 1) \div 2

EmptyKey == << >>

(* the template string of line 64; the four integers separated by colons   *)
(* are kept as a tuple                                                     *)
KeyOf(el) == << Round(el.x), Round(el.y), Round(el.w), Round(el.h) >>

(* lines 60-65: the key of the element now at index k, "" if there is none *)
KeyAt(els, k) == IF k + 1 <= Len(els) THEN KeyOf(els[k + 1]) ELSE EmptyKey

---------------------------------------------------------------------------
(* The visibility test as the specification states it (section 3): used    *)
(* only by the history variables selVis and rasterVis.                     *)
PassesVisibilityTest(el) ==
    /\ ~el.hidden
    /\ el.w > H(MIN_VISIBLE_W) /\ el.h > H(MIN_VISIBLE_H)
    /\ el.y + el.h > 0 /\ el.x + el.w > 0

(* What one evaluation of lines 40-56 can return, over every page *)
ProbeOutcomes ==
    { [idx |-> BestIdx(p),
       vis |-> IF BestIdx(p) >= 0 /\ BestIdx(p) < Len(p)
               THEN PassesVisibilityTest(p[BestIdx(p) + 1]) ELSE FALSE] : p \in Pages }

(* What one evaluation of lines 60-65 can return for index k: the page may *)
(* have changed since the probe                                            *)
KeyOutcomes == [k \in 0 .. MaxEls - 1 |-> {KeyAt(p, k) : p \in Pages}]

(* What lines 81-82 can see: the number of containers, and whether the     *)
(* first one passes the visibility test                                    *)
FallbackOutcomes ==
    { [n |-> Len(p), vis |-> IF Len(p) > 0 THEN PassesVisibilityTest(p[1]) ELSE FALSE] :
        p \in Pages }

(* Buffers a screenshot can return: the first bytes and the length *)
Bufs == { [head |-> "PNG", len |-> 20000], [head |-> "PNG", len |-> 19999],
          [head |-> "PNG", len |-> 100],   [head |-> "PNG", len |-> 99],
          [head |-> "JPG", len |-> 20000], [head |-> "JPG", len |-> 100] }

(* target.screenshot({type: "png"}) of line 103 returns PNG data; a blank  *)
(* frame compresses to a short one                                         *)
PngBufs == { [head |-> "PNG", len |-> 20000], [head |-> "PNG", len |-> 19999] }

NoBuf == [head |-> "", len |-> 0]
NoFile == [head |-> "", len |-> -1]
NoRun == << -1 >>
Pending == [kind |-> "pending", idx |-> -1]
NoClip == [x |-> 0, y |-> 0, width |-> -1, height |-> -1]

---------------------------------------------------------------------------
(* largestVisibleLeaflet, lines 33-84 *)

(* the loop test with the ceiling included *)
LoopCondInclusive(n, s) == n - s <= CEILING_MS

(* line 39 *)
LoopCond(n, s) == n - s < CEILING_MS

(* the dwell test with a strict comparison *)
DwellReachedStrict(n, since, ms) == n - since > ms

(* the dwell measured from the start of the detector *)
DwellReachedFromStart(n, since, ms) == n - start >= ms

(* line 68 *)
DwellReached(n, since, ms) == n - since >= ms

(* the fallback without the count() test *)
FallbackUnchecked(count) == [kind |-> "fallback", idx |-> 0]

(* the timeout reported as a failure whatever the page holds *)
FallbackNone(count) == [kind |-> "none", idx |-> -1]

(* lines 81-83: the first container if the page has one, else null *)
Fallback(count) ==
    IF count > 0 THEN [kind |-> "fallback", idx |-> 0]
    ELSE [kind |-> "none", idx |-> -1]

(* the locals of largestVisibleLeaflet and the history kept about them *)
detKept == << start, stableSince, lastKey, idx, result, runKey, runSince,
              lastFoundIdx, fbCount, ticks, settled, changedAt, allChanged >>
detVars == << detKept, selVis >>
otherVars == << i, navAttempts, clip, rasterVis, pageEls >>

DetIdle ==
    /\ start = 0 /\ stableSince = 0 /\ lastKey = EmptyKey /\ idx = -1
    /\ result = Pending /\ selVis = FALSE /\ runKey = NoRun /\ runSince = 0
    /\ lastFoundIdx = -1 /\ fbCount = -1 /\ ticks = 0 /\ settled = FALSE
    /\ changedAt = -1 /\ allChanged = FALSE

(* the locals of a returned largestVisibleLeaflet are gone; target of line *)
(* 99 and what is known of its origin stay                                 *)
DetClear ==
    /\ start' = 0 /\ stableSince' = 0 /\ lastKey' = EmptyKey /\ idx' = -1
    /\ selVis' = FALSE /\ runKey' = NoRun /\ runSince' = 0
    /\ lastFoundIdx' = -1 /\ fbCount' = -1 /\ ticks' = 0 /\ settled' = FALSE
    /\ changedAt' = -1

DetReset ==
    /\ DetClear
    /\ result' = Pending /\ allChanged' = FALSE

(* lines 34-36: start, stableSince and lastKey are set on entry *)
DetStart(n) ==
    /\ start' = n /\ stableSince' = n /\ lastKey' = EmptyKey /\ idx' = -1
    /\ result' = Pending /\ selVis' = FALSE /\ runKey' = NoRun /\ runSince' = n
    /\ lastFoundIdx' = -1 /\ fbCount' = -1 /\ ticks' = 0 /\ settled' = FALSE
    /\ changedAt' = -1 /\ allChanged' = TRUE

(* The pages a settled page can be: those on which the probe selects k and *)
(* the element at k has key                                                *)
SettledPages(k, key) == {p \in Pages : BestIdx(p) = k /\ KeyAt(p, k) = key}

Keys == UNION {KeyOutcomes[k] : k \in 0 .. MaxEls - 1}

(* what the queries of lines 40-56 and 81-82 see on a settled page *)
SettledOutcomes ==
    [k \in 0 .. MaxEls - 1 |-> [key \in Keys |->
        { [idx |-> k, vis |-> PassesVisibilityTest(p[k + 1]),
           n |-> Len(p), first |-> PassesVisibilityTest(p[1])] :
            p \in SettledPages(k, key) }]]

ProbeOutcomesNow ==
    IF settled
    THEN { [idx |-> o.idx, vis |-> o.vis] : o \in SettledOutcomes[idx][lastKey] }
    ELSE ProbeOutcomes

(* lines 39-56: the loop test holds and the probe selects an index *)
A_Probe ==
    /\ pc = "A_loop"
    /\ LoopCond(now, start)
    /\ \E o \in ProbeOutcomesNow :
         /\ idx' = o.idx
         /\ selVis' = o.vis
         /\ IF o.idx >= 0
            THEN /\ pc' = "A_key"
                 /\ lastFoundIdx' = o.idx
                 /\ UNCHANGED << runKey, runSince, allChanged >>
            ELSE /\ pc' = "A_wait"
                 /\ runKey' = NoRun
                 /\ runSince' = now
                 /\ allChanged' = FALSE
                 /\ UNCHANGED lastFoundIdx
    /\ ticks' = ticks + 1
    /\ UNCHANGED << t, files, exitCode, failKind, browserOpen, closes, buf, now,
                    start, stableSince, lastKey, result, fbCount, settled,
                    changedAt, otherVars >>

(* lines 58-75: the key of element idx is read and compared with lastKey *)
A_Key ==
    /\ pc = "A_key"
    /\ \E key \in (IF settled THEN {lastKey} ELSE KeyOutcomes[idx]) :
         /\ IF key = lastKey
            THEN /\ IF DwellReached(now, stableSince, STABILIZE_MS)
                    THEN /\ result' = [kind |-> "stable", idx |-> idx]
                         /\ pc' = "A_ret"
                    ELSE /\ pc' = "A_wait"
                         /\ UNCHANGED result
                 /\ allChanged' = FALSE
                 /\ UNCHANGED << lastKey, stableSince, changedAt >>
            ELSE /\ lastKey' = key
                 /\ stableSince' = now
                 /\ pc' = "A_wait"
                 /\ changedAt' = now
                 /\ UNCHANGED << result, allChanged >>
         /\ IF key = runKey
            THEN UNCHANGED << runKey, runSince >>
            ELSE runKey' = key /\ runSince' = now
    /\ UNCHANGED << t, files, exitCode, failKind, browserOpen, closes, buf, now,
                    start, idx, selVis, lastFoundIdx, fbCount, ticks, settled,
                    otherVars >>

(* line 77.  While the detector waits the page may stop changing for good, *)
(* as the page the tick just saw (it found a candidate and read its key).  *)
A_Wait ==
    /\ pc = "A_wait"
    /\ now' = now + POLL_MS
    /\ pc' = "A_loop"
    /\ \/ settled' = settled
       \/ /\ idx >= 0
          /\ SettledOutcomes[idx][lastKey] # {}
          /\ settled' = TRUE
    /\ UNCHANGED << t, files, exitCode, failKind, browserOpen, closes, buf,
                    start, stableSince, lastKey, idx, result, runKey, runSince,
                    lastFoundIdx, fbCount, ticks, selVis, changedAt, allChanged,
                    otherVars >>

(* lines 80-83: the loop test failed *)
A_Fallback ==
    /\ pc = "A_loop"
    /\ ~LoopCond(now, start)
    /\ \E o \in (IF settled
                 THEN { [n |-> q.n, vis |-> q.first] : q \in SettledOutcomes[idx][lastKey] }
                 ELSE FallbackOutcomes) :
         /\ fbCount' = o.n
         /\ result' = Fallback(o.n)
         /\ selVis' = o.vis
    /\ pc' = "A_ret"
    /\ UNCHANGED << t, files, exitCode, failKind, browserOpen, closes, buf, now,
                    start, stableSince, lastKey, idx, runKey, runSince,
                    lastFoundIdx, ticks, settled, changedAt, allChanged, otherVars >>

---------------------------------------------------------------------------
(* Program A: run and snapOne, lines 86-120 *)

Targets == 1 .. NTargets

(* the iteration stepping over a target *)
NextTargetSkip(k) == k + 2

(* for (const t of TARGETS), line 114, and for (... of SHOTS), line 216:   *)
(* the index of the target after target k                                  *)
NextTarget(k) == k + 1

(* the top-level catch ending the process with code 0 *)
FatalExitZero(kind) ==
    /\ failKind' = kind
    /\ exitCode' = 0
    /\ pc' = "exit"

(* the top-level catch of line 120 (and of lines 241-244) *)
Fatal(kind) ==
    /\ failKind' = kind
    /\ exitCode' = 1
    /\ pc' = "exit"

(* line 87: chromium.launch() is outside the try *)
A_Launch ==
    /\ pc = "A_launch"
    /\ browserOpen' = TRUE
    /\ closes' = 0
    /\ pc' = "A_goto"
    /\ UNCHANGED << t, files, exitCode, failKind, buf, now, detVars, otherVars >>

A_LaunchFail ==
    /\ pc = "A_launch"
    /\ Fatal("launch")
    /\ UNCHANGED << t, files, browserOpen, closes, buf, now, detVars, otherVars >>

(* lines 89-99: the context and the page are made, the page loads, the    *)
(* style tag is added, the tab clicked and largestVisibleLeaflet entered.  *)
(* The clock is counted from here.                                         *)
A_Goto ==
    /\ pc = "A_goto"
    /\ now' = 0
    /\ DetStart(now')
    /\ navAttempts' = [navAttempts EXCEPT ![t] = @ + 1]
    /\ pc' = "A_loop"
    /\ UNCHANGED << t, files, exitCode, failKind, browserOpen, closes, buf,
                    i, clip, rasterVis, pageEls >>

(* the error of lines 89-97 leaving snapOne without the finally block *)
A_GotoFailUncaught ==
    /\ pc = "A_goto"
    /\ Fatal("nav")
    /\ navAttempts' = [navAttempts EXCEPT ![t] = @ + 1]
    /\ UNCHANGED << t, files, browserOpen, closes, buf, now, detVars,
                    i, clip, rasterVis, pageEls >>

(* one of lines 89-97 throws (page.goto of line 95 timing out): the        *)
(* finally block runs with the error pending                               *)
A_GotoFail ==
    /\ pc = "A_goto"
    /\ failKind' = "nav"
    /\ navAttempts' = [navAttempts EXCEPT ![t] = @ + 1]
    /\ pc' = "A_finally"
    /\ UNCHANGED << t, files, exitCode, browserOpen, closes, buf, now, detVars,
                    i, clip, rasterVis, pageEls >>

(* line 100 *)
A_NoTarget ==
    /\ pc = "A_ret"
    /\ result.kind = "none"
    /\ failKind' = "noregion"
    /\ pc' = "A_finally"
    /\ now' = 0
    /\ DetReset
    /\ UNCHANGED << t, files, exitCode, browserOpen, closes, buf, otherVars >>

(* lines 102-103: the element the detector returned is rasterized *)
A_Shoot ==
    /\ pc = "A_ret"
    /\ result.kind \in {"stable", "fallback"}
    /\ rasterVis' = selVis
    /\ \E b \in PngBufs : buf' = b
    /\ pc' = "A_write"
    /\ now' = 0
    /\ DetClear
    /\ UNCHANGED << t, files, exitCode, failKind, browserOpen, closes, result,
                    allChanged, i, navAttempts, clip, pageEls >>

A_ShootFail ==
    /\ pc = "A_ret"
    /\ result.kind \in {"stable", "fallback"}
    /\ rasterVis' = selVis
    /\ failKind' = "shot"
    /\ pc' = "A_finally"
    /\ now' = 0
    /\ DetClear
    /\ UNCHANGED << t, files, exitCode, browserOpen, closes, buf, result,
                    allChanged, i, navAttempts, clip, pageEls >>

(* lines 105-107: the buffer is written as it came *)
A_Write ==
    /\ pc = "A_write"
    /\ files' = [files EXCEPT ![t] = buf]
    /\ buf' = NoBuf
    /\ pc' = "A_finally"
    /\ UNCHANGED << t, exitCode, failKind, browserOpen, closes, now, detVars, otherVars >>

A_WriteFail ==
    /\ pc = "A_write"
    /\ failKind' = "io"
    /\ buf' = NoBuf
    /\ pc' = "A_finally"
    /\ UNCHANGED << t, files, exitCode, browserOpen, closes, now, detVars, otherVars >>

(* lines 108-110 and 114-120: the browser is closed; a pending error       *)
(* rejects run() and the catch exits with 1, else the loop goes on          *)
A_Close ==
    /\ pc = "A_finally"
    /\ browserOpen' = FALSE
    /\ closes' = closes + 1
    /\ rasterVis' = TRUE
    /\ IF failKind # "none"
       THEN /\ exitCode' = 1 /\ pc' = "exit" /\ UNCHANGED t
       ELSE IF t < NTargets
            THEN /\ t' = NextTarget(t) /\ pc' = "A_launch" /\ UNCHANGED exitCode
            ELSE /\ exitCode' = 0 /\ pc' = "exit" /\ UNCHANGED t
    /\ result' = Pending
    /\ allChanged' = FALSE
    /\ UNCHANGED << files, failKind, buf, now, start, stableSince, lastKey, idx,
                    runKey, runSince, lastFoundIdx, fbCount, ticks, settled,
                    changedAt, selVis, i, navAttempts, clip, pageEls >>

InitState ==
    /\ t = 1
    /\ files = [k \in Targets |-> NoFile]
    /\ exitCode = -1
    /\ failKind = "none"
    /\ browserOpen = FALSE
    /\ closes = 0
    /\ buf = NoBuf
    /\ now = 0
    /\ DetIdle
    /\ i = 0
    /\ navAttempts = [k \in Targets |-> 0]
    /\ clip = NoClip
    /\ rasterVis = TRUE

InitCommon == InitState /\ pageEls = << >>

InitA == InitCommon /\ pc = "A_launch"

NextA ==
    \/ A_Launch \/ A_LaunchFail \/ A_Goto \/ A_GotoFail
    \/ A_Probe \/ A_Key \/ A_Wait \/ A_Fallback
    \/ A_NoTarget \/ A_Shoot \/ A_ShootFail
    \/ A_Write \/ A_WriteFail \/ A_Close

SpecA == InitA /\ [][NextA]_vars

---------------------------------------------------------------------------
(* Program B: the main loop over SHOTS, lines 195-244 *)

(* isValidPng, lines 139-143: head stands for the first eight bytes *)
IsValidPng(b) ==
    IF b = NoBuf \/ b.len < MIN_SIG_BYTES THEN FALSE
    ELSE b.head = "PNG"

(* line 231, negated: the buffer is written *)
Accepted(b) == ~(~IsValidPng(b) \/ b.len < MIN_BYTES)

(* the retry loop running once more *)
RetryCondInclusive(k, attempts) == k <= attempts

(* line 182 *)
RetryCond(k, attempts) == k < attempts

(* Math.floor *)
Floor(v) == v \div 2

(* lines 171-176 *)
ClipOf(rect) ==
    [x |-> Floor(rect.x), y |-> Floor(rect.y),
     width |-> Floor(rect.w), height |-> Floor(rect.h)]

(* line 196 *)
B_Mkdir ==
    /\ pc = "B_mkdir"
    /\ pc' = "B_launch"
    /\ UNCHANGED << t, files, exitCode, failKind, browserOpen, closes, buf, now,
                    detVars, otherVars >>

B_MkdirFail ==
    /\ pc = "B_mkdir"
    /\ Fatal("mkdir")
    /\ UNCHANGED << t, files, browserOpen, closes, buf, now, detVars, otherVars >>

(* lines 198-219: the browser starts and gotoRetry is entered *)
B_Launch ==
    /\ pc = "B_launch"
    /\ browserOpen' = TRUE
    /\ i' = 0
    /\ pc' = "B_nav"
    /\ UNCHANGED << t, files, exitCode, failKind, closes, buf, now, detVars,
                    navAttempts, clip, rasterVis, pageEls >>

B_LaunchFail ==
    /\ pc = "B_launch"
    /\ Fatal("launch")
    /\ UNCHANGED << t, files, browserOpen, closes, buf, now, detVars, otherVars >>

(* lines 182-186: page.goto succeeds and gotoRetry returns *)
B_NavOk ==
    /\ pc = "B_nav"
    /\ RetryCond(i, ATTEMPTS)
    /\ navAttempts' = [navAttempts EXCEPT ![t] = @ + 1]
    /\ pc' = "B_render"
    /\ UNCHANGED << t, files, exitCode, failKind, browserOpen, closes, buf, now,
                    detVars, i, clip, rasterVis, pageEls >>

(* lines 182-190: page.goto throws; after the backoff the loop goes on *)
B_NavFail ==
    /\ pc = "B_nav"
    /\ RetryCond(i, ATTEMPTS)
    /\ navAttempts' = [navAttempts EXCEPT ![t] = @ + 1]
    /\ i' = i + 1
    /\ UNCHANGED << pc, t, files, exitCode, failKind, browserOpen, closes, buf, now,
                    detVars, clip, rasterVis, pageEls >>

(* line 192: the loop ended without a return *)
B_NavGiveUp ==
    /\ pc = "B_nav"
    /\ ~RetryCond(i, ATTEMPTS)
    /\ Fatal("nav")
    /\ UNCHANGED << t, files, browserOpen, closes, buf, now, detVars, otherVars >>

(* lines 220-221 *)
B_Render ==
    /\ pc = "B_render"
    /\ pc' = "B_clip"
    /\ UNCHANGED << t, files, exitCode, failKind, browserOpen, closes, buf, now,
                    detVars, otherVars >>

B_RenderFail ==
    /\ pc = "B_render"
    /\ Fatal("norender")
    /\ UNCHANGED << t, files, browserOpen, closes, buf, now, detVars, otherVars >>

(* lines 162-177 and 223: the first canvas of the page gives the clip; its *)
(* visibility is not looked at                                             *)
B_Clip ==
    /\ pc = "B_clip"
    /\ \E p \in Pages :
         /\ Len(p) > 0
         /\ clip' = ClipOf(p[1])
         /\ selVis' = PassesVisibilityTest(p[1])
    /\ pc' = "B_shot"
    /\ UNCHANGED << t, files, exitCode, failKind, browserOpen, closes, buf, now,
                    detKept, i, navAttempts, rasterVis, pageEls >>

(* line 165 on a page without canvas: container is null *)
B_ClipFail ==
    /\ pc = "B_clip"
    /\ << >> \in Pages
    /\ Fatal("noregion")
    /\ UNCHANGED << t, files, browserOpen, closes, buf, now, detVars, otherVars >>

(* lines 225-229 *)
B_Shot ==
    /\ pc = "B_shot"
    /\ rasterVis' = selVis
    /\ \E b \in Bufs : buf' = b
    /\ pc' = "B_validate"
    /\ UNCHANGED << t, files, exitCode, failKind, browserOpen, closes, now,
                    detVars, i, navAttempts, clip, pageEls >>

B_ShotFail ==
    /\ pc = "B_shot"
    /\ rasterVis' = selVis
    /\ Fatal("shot")
    /\ UNCHANGED << t, files, browserOpen, closes, buf, now, detVars, i,
                    navAttempts, clip, pageEls >>

(* lines 231-233 *)
B_Reject ==
    /\ pc = "B_validate"
    /\ ~Accepted(buf)
    /\ Fatal("invalid")
    /\ UNCHANGED << t, files, browserOpen, closes, buf, now, detVars, otherVars >>

(* lines 235-238 and 216-219: the file is written; the loop goes to the    *)
(* next shot and enters gotoRetry again, or ends                           *)
B_Write ==
    /\ pc = "B_validate"
    /\ Accepted(buf)
    /\ files' = [files EXCEPT ![t] = buf]
    /\ buf' = NoBuf
    /\ clip' = NoClip
    /\ selVis' = FALSE
    /\ rasterVis' = TRUE
    /\ i' = 0
    /\ IF t < NTargets
       THEN t' = NextTarget(t) /\ pc' = "B_nav"
       ELSE pc' = "B_close" /\ UNCHANGED t
    /\ UNCHANGED << exitCode, failKind, browserOpen, closes, now,
                    detKept, navAttempts, pageEls >>

B_WriteFail ==
    /\ pc = "B_validate"
    /\ Accepted(buf)
    /\ Fatal("io")
    /\ UNCHANGED << t, files, browserOpen, closes, buf, now, detVars, otherVars >>

(* line 240, then the process ends *)
B_Close ==
    /\ pc = "B_close"
    /\ browserOpen' = FALSE
    /\ closes' = closes + 1
    /\ exitCode' = 0
    /\ pc' = "exit"
    /\ UNCHANGED << t, files, failKind, buf, now, detVars, otherVars >>

InitB == InitCommon /\ pc = "B_mkdir"

NextB ==
    \/ B_Mkdir \/ B_MkdirFail \/ B_Launch \/ B_LaunchFail
    \/ B_NavOk \/ B_NavFail \/ B_NavGiveUp
    \/ B_Render \/ B_RenderFail \/ B_Clip \/ B_ClipFail
    \/ B_Shot \/ B_ShotFail \/ B_Reject \/ B_Write \/ B_WriteFail \/ B_Close

SpecB == InitB /\ [][NextB]_vars

---------------------------------------------------------------------------
(* The Geometry Probe on its own: the function evaluated in the page by    *)
(* lines 40-56, applied to every list of elements up to MaxProbeEls long   *)

ProbePages == SeqsUpTo(PageElems, MaxProbeEls)

P_Evaluate ==
    /\ pc = "P_probe"
    /\ idx' = BestIdx(pageEls)
    /\ pc' = "P_done"
    /\ UNCHANGED << t, files, exitCode, failKind, browserOpen, closes, buf, now,
                    start, stableSince, lastKey, result, runKey, runSince,
                    lastFoundIdx, fbCount, ticks, settled, changedAt, allChanged,
                    selVis, otherVars >>

InitProbe == InitState /\ pageEls \in ProbePages /\ pc = "P_probe"

NextProbe == P_Evaluate

SpecProbe == InitProbe /\ [][NextProbe]_vars

---------------------------------------------------------------------------
(* A run of either program *)
InitAny == InitA \/ InitB

NextAny == NextA \/ NextB

SpecAny == InitAny /\ [][NextAny]_vars

---------------------------------------------------------------------------
(* Claims about the Stabilization Detector (program A) *)

DetActive == pc \in {"A_loop", "A_key", "A_wait"}

TimedOut == pc = "A_ret" /\ result.kind \in {"fallback", "none"}

(* the last elapsed time at which a constant stretch can begin and still   *)
(* reach stableMs on a tick that starts before the ceiling                 *)
LatestOnset == CEILING_MS - POLL_MS - STABILIZE_MS

(* C1, as stated: once the key has become constant and stays constant (the *)
(* page has settled), the detector returns STABLE, however many ticks with *)
(* changing keys came before.                                              *)
C1_StableOnceSettled ==
    (pc = "A_ret" /\ settled) => result.kind = "stable"

(* C1, amended: a constant stretch that begins no later than LatestOnset   *)
(* after the start and is not broken ends in STABLE, with the candidate    *)
(* and the key of the returning tick: no tick ends without returning once  *)
(* the stretch has lasted stableMs, and a stretch still running at TIMEOUT *)
(* began later than LatestOnset.                                           *)
C1_StableWithinCeiling ==
    /\ (pc = "A_wait" /\ runKey # NoRun) => now - runSince < STABILIZE_MS
    /\ (TimedOut /\ runKey # NoRun) => runSince - start > LatestOnset
    /\ (pc = "A_ret" /\ settled /\ runSince - start <= LatestOnset) =>
           result.kind = "stable"
    /\ (pc = "A_ret" /\ result.kind = "stable") =>
           /\ result.idx = idx
           /\ lastKey = runKey
           /\ now - start < CEILING_MS

C1_Witness ==
    /\ pc = "A_ret" /\ result.kind = "stable" /\ settled
    /\ runSince > start + STABILIZE_MS
    /\ runSince - start <= LatestOnset

Rank == CASE pc = "A_loop" -> 3 [] pc = "A_key" -> 2 [] pc = "A_wait" -> 1 [] OTHER -> 0

Variant == IF DetActive THEN 4 * (CEILING_MS + POLL_MS - (now - start)) + Rank ELSE 0

DetNext == A_Probe \/ A_Key \/ A_Wait \/ A_Fallback

C3_DetectorTerminates ==
    /\ [](DetActive => (Variant > 0 /\ now - start <= CEILING_MS /\ ENABLED DetNext))
    /\ [][ticks' > ticks => now - start < CEILING_MS]_vars
    /\ [][DetActive => Variant' < Variant]_vars

C3_Witness == TimedOut /\ now - start = CEILING_MS /\ ticks = CEILING_MS \div POLL_MS

---------------------------------------------------------------------------
(* Claims about the Capture Orchestrator *)

(* the per-target failures the specification names: navigation failure,   *)
(* no region found, invalid capture                                        *)
CaptureFailures == {"nav", "noregion", "invalid"}

(* C4: a target that fails every attempt ends the run with a file at its   *)
(* path, and after any run every target has a file.                        *)
C4_FailedTargetHasFile ==
    (pc = "exit" /\ failKind = "nav") => \A k \in Targets : files[k] # NoFile

(* C5: when one target fails all of its attempts, every other target is    *)
(* still attempted.                                                        *)
C5_SiblingsAttempted ==
    (pc = "exit" /\ failKind = "nav") => \A k \in Targets : navAttempts[k] > 0

(* C6: a target is navigated to at most ATTEMPTS times; the retrying stops *)
(* at the first attempt that succeeds, and exactly ATTEMPTS attempts are   *)
(* made when every one fails.                                              *)
C6_RetryBound ==
    /\ \A k \in Targets : navAttempts[k] <= ATTEMPTS
    /\ pc = "B_nav" => navAttempts[t] = i
    /\ pc \in {"B_render", "B_clip", "B_shot", "B_validate"} => navAttempts[t] = i + 1
    /\ (pc = "exit" /\ failKind = "nav") => navAttempts[t] = ATTEMPTS

C6_Witness ==
    /\ pc = "exit" /\ failKind = "nav" /\ t = 2
    /\ navAttempts[1] = 2 /\ navAttempts[2] = ATTEMPTS

(* C7: a failure inside an attempt never ends the target's processing      *)
(* while retry budget is left.                                             *)
C7_RetriedWhileBudgetLeft ==
    (pc = "exit" /\ failKind \in CaptureFailures) => navAttempts[t] = ATTEMPTS

(* C8: the run ends with exit code 0 whenever the only failure was a       *)
(* per-target capture failure; the exit code is non-zero only for an       *)
(* environment-level failure.                                              *)
C8_ExitZeroOnCaptureFailure ==
    (pc = "exit" /\ failKind \in CaptureFailures) => exitCode = 0

(* C9: no buffer that lacks the signature or is shorter than MIN_BYTES is  *)
(* ever written to a target's path.                                        *)
C9_OnlyValidBuffersWritten ==
    \A k \in Targets :
        files[k] # NoFile => (files[k].head = "PNG" /\ files[k].len >= MIN_BYTES)

---------------------------------------------------------------------------
(* Claims about the ticks of the Stabilization Detector *)

(* C13: a tick returns STABLE only if the key it read equals the           *)
(* remembered key and at least stableMs have passed since the dwell clock   *)
(* was last set; a tick whose key differs returns nothing, remembers the   *)
(* new key and sets the dwell clock to the current time.  Hence STABLE is  *)
(* never returned less than stableMs after a tick that saw the key change. *)
C13_StableOnlyAfterDwell ==
    /\ [][pc = "A_key" =>
            /\ result'.kind = "stable" =>
                  (runKey' = lastKey /\ now - stableSince >= STABILIZE_MS)
            /\ runKey' # lastKey =>
                  /\ pc' = "A_wait" /\ result' = Pending
                  /\ lastKey' = runKey' /\ stableSince' = now]_vars
    /\ []((pc = "A_ret" /\ result.kind = "stable") =>
            /\ now - start >= STABILIZE_MS
            /\ changedAt = -1 \/ now - changedAt >= STABILIZE_MS)

C13_Witness ==
    /\ pc = "A_ret" /\ result.kind = "stable"
    /\ changedAt > start /\ now - changedAt = STABILIZE_MS

(* C14: the time spent on ticks that found no candidate does not count     *)
(* toward the stabilization threshold: when such a tick (POLL_MS long) has *)
(* come since the dwell clock was last set, which is when the current      *)
(* stretch of equal keys began after the clock was set, STABLE needs that  *)
(* much more than stableMs on the clock.  (Stated for a key that was read  *)
(* from an element.)                                                       *)
C14_NoCandidateTimeNotCounted ==
    (/\ pc = "A_ret" /\ result.kind = "stable"
     /\ lastKey # EmptyKey /\ runSince > stableSince) =>
        now - stableSince >= STABILIZE_MS + POLL_MS

(* C16: when the detector times out, whatever the keys did (they may have  *)
(* changed on every tick), and the page then holds a container, the        *)
(* attempt does not fail for lack of a region: the detector returns that   *)
(* container, line 100 does not throw, and the next step of snapOne is the *)
(* screenshot of the element the detector returned.                        *)
C16_TimeoutProceeds ==
    /\ []((TimedOut /\ fbCount > 0) =>
            (result.kind = "fallback" /\ ENABLED A_Shoot /\ ~ENABLED A_NoTarget))
    /\ [][(pc = "A_ret" /\ result.kind = "fallback") =>
            /\ pc' \in {"A_write", "A_finally"}
            /\ failKind' \in {"none", "shot"}
            /\ result' = result
            /\ rasterVis' = selVis]_vars

C16_Witness ==
    /\ pc = "A_write" /\ result.kind = "fallback" /\ allChanged
    /\ buf \in PngBufs /\ failKind = "none"

(* C17: the page may change between the probe and the key read of a tick.  *)
(* STABLE is never returned on the empty key, the key of an index whose    *)
(* element is gone when its geometry is read.                              *)
C17_NoStableOnEmptyKey ==
    (pc = "A_ret" /\ result.kind = "stable") => lastKey # EmptyKey

---------------------------------------------------------------------------
(* Claims about the Geometry Probe *)

(* C15: for every list of elements the probe selects a visible element of  *)
(* maximum area, the first in document order of those that share the       *)
(* maximum, and selects none (-1) exactly when no element is visible.      *)
C15_LargestFirst ==
    pc = "P_done" =>
        LET vis == {k \in 1 .. Len(pageEls) : PassesVisibilityTest(pageEls[k])}
            area(k) == pageEls[k].w * pageEls[k].h
        IN  IF vis = {} THEN idx = -1
            ELSE /\ idx + 1 \in vis
                 /\ \A k \in vis :
                       /\ area(k) <= area(idx + 1)
                       /\ area(k) = area(idx + 1) => k >= idx + 1

C15_Witness ==
    /\ pc = "P_done" /\ Len(pageEls) = 3 /\ idx = 1
    /\ PassesVisibilityTest(pageEls[1]) /\ PassesVisibilityTest(pageEls[3])
    /\ pageEls[2].w * pageEls[2].h = pageEls[3].w * pageEls[3].h

---------------------------------------------------------------------------
(* Claims about the Region Selector *)

(* C11: the region handed to rasterization has strictly positive width and *)
(* height; a region of zero area is reported as a failure and the          *)
(* screenshot is never called with it.                                     *)
C11_RasterRegionPositive ==
    (pc = "B_validate" \/ (pc = "exit" /\ failKind = "shot")) =>
        (clip.width > 0 /\ clip.height > 0)

---------------------------------------------------------------------------
(* Claims about the order of the work *)

(* C12: the targets are processed in list order, one at a time: every      *)
(* target before the current one has its file, no target after it has been *)
(* navigated to or written, a step navigates or writes for the current     *)
(* target only, and the current target advances by one, with its file      *)
(* written.                                                                *)
C12_Sequential ==
    /\ [](\A k \in Targets :
            /\ k < t => (files[k] # NoFile /\ navAttempts[k] > 0)
            /\ k > t => (files[k] = NoFile /\ navAttempts[k] = 0))
    /\ [][/\ t' = t \/ (t' = t + 1 /\ files'[t] # NoFile)
          /\ \A k \in Targets :
                (files'[k] # files[k] \/ navAttempts'[k] # navAttempts[k]) => k = t]_vars

C12_Witness ==
    /\ pc = "A_ret" /\ t = 2
    /\ files[1] # NoFile /\ navAttempts[2] = 1
    /\ files[2] = NoFile /\ navAttempts[3] = 0

---------------------------------------------------------------------------
(* Claims about the browser session and the output files *)

(* C18: in snapOne a launched browser is closed exactly once before        *)
(* snapOne completes, whatever the outcome: the session is open from the   *)
(* launch to the finally block and has not been closed yet, it is closed   *)
(* when the next target starts and when the run exits, and close() was     *)
(* then called once for the session that was launched.                     *)
C18_BrowserClosedOnce ==
    /\ closes <= 1
    /\ browserOpen => closes = 0
    /\ pc \in {"A_goto", "A_loop", "A_key", "A_wait", "A_ret", "A_write", "A_finally"}
          => browserOpen
    /\ pc \in {"A_launch", "exit"} => ~browserOpen
    /\ (pc = "A_launch" /\ t > 1) => closes = 1
    /\ (pc = "exit" /\ failKind # "launch") => closes = 1

C18_Witness ==
    /\ pc = "exit" /\ failKind = "shot" /\ t = 2
    /\ ~browserOpen /\ closes = 1

(* C19: the targets whose file has been written are always a prefix of the *)
(* target list; once a target's processing has thrown no file is written   *)
(* any more, the program only goes on to its exit, and the exit code is 1. *)
(* The exit code is 0 only when every file was written.                    *)
C19_PrefixOfOutputs ==
    /\ [](\A k \in Targets :
            files[k] # NoFile => \A j \in 1 .. k - 1 : files[j] # NoFile)
    /\ [](failKind # "none" => pc \in {"A_finally", "exit"})
    /\ [](pc = "exit" =>
            IF failKind # "none" THEN exitCode = 1
            ELSE exitCode = 0 /\ \A k \in Targets : files[k] # NoFile)
    /\ [][failKind # "none" => (files' = files /\ failKind' = failKind)]_vars

C19_Witness ==
    /\ pc = "exit" /\ failKind = "invalid" /\ exitCode = 1 /\ t = 2
    /\ files[1] # NoFile /\ files[2] = NoFile /\ files[3] = NoFile

===========================================================================
